---- MODULE Spec2Model ----
(***************************************************************************)
(* A model of the GenAI Document Assistant back end: the text extractor    *)
(* (app/utils.py), the LLM wrappers (app/llm.py) and the HTTP handlers     *)
(* with their in-memory document_store (app/main.py).                      *)
(*                                                                         *)
(* Python strings are TLA+ strings; a character is a string of length 1.   *)
(* The LLM and the PDF library are outside the repository: what they       *)
(* return (or raise) is an input drawn from a bounded set.                 *)
(***************************************************************************)
EXTENDS Integers, Sequences, FiniteSets, TLC

VARIABLES
    USE_DUMMY_FUNCTIONS,  \* llm.py: TRUE when no GOOGLE_API_KEY is configured
    document_store,       \* main.py: the process-wide session record
    input,                \* the request (or direct call) in progress, with what the
                          \* LLM will answer to it
    response,             \* the HTTP response the handler produced for it
    call                  \* the outcome of a direct call of a library function

vars == <<USE_DUMMY_FUNCTIONS, document_store, response, input, call>>

----------------------------------------------------------------------------
(* Strings *)

\* s[i-1:i]: the character of s at index i (from 1), "" outside s.
Ch(s, i) == IF i >= 1 /\ i <= Len(s) THEN SubSeq(s, i, i) ELSE ""

\* s[i-1:j]: the characters of s from index i to index j, cut to s.
Sub(s, i, j) ==
    LET a == IF i < 1 THEN 1 ELSE i
        b == IF j > Len(s) THEN Len(s) ELSE j
    IN  IF a > b THEN "" ELSE SubSeq(s, a, b)

\* The characters str.strip() and the regex class \s remove, among those the
\* model's texts are written with.
PyWhitespace == {" ", "\t", "\n", "\r", "\f"}

Digits == {"0", "1", "2", "3", "4", "5", "6", "7", "8", "9"}

StartsWith(s, p) == Len(s) >= Len(p) /\ Sub(s, 1, Len(p)) = p

EndsWith(s, p) == Len(s) >= Len(p) /\ Sub(s, Len(s) - Len(p) + 1, Len(s)) = p

\* The least index in lo..hi of a character of s that is in chars (member) or
\* not in chars (~member); hi+1 if there is none. The search halves the range,
\* so that its depth stays small on the long texts of llm.py.
RECURSIVE FirstIndex(_, _, _, _, _)
FirstIndex(s, lo, hi, chars, member) ==
    LET mid  == (lo + hi) \div 2
        left == FirstIndex(s, lo, mid, chars, member)
    IN  IF lo > hi THEN hi + 1
        ELSE IF lo = hi THEN (IF (Ch(s, lo) \in chars) = member THEN lo ELSE hi + 1)
        ELSE IF left <= mid THEN left
        ELSE FirstIndex(s, mid + 1, hi, chars, member)

\* The greatest such index; lo-1 if there is none.
RECURSIVE LastIndex(_, _, _, _, _)
LastIndex(s, lo, hi, chars, member) ==
    LET mid   == (lo + hi) \div 2
        right == LastIndex(s, mid + 1, hi, chars, member)
    IN  IF lo > hi THEN lo - 1
        ELSE IF lo = hi THEN (IF (Ch(s, lo) \in chars) = member THEN lo ELSE lo - 1)
        ELSE IF right > mid THEN right
        ELSE LastIndex(s, lo, mid, chars, member)

\* The least index >= i of a character of s that is not whitespace; Len(s)+1 if none.
SkipSpace(s, i) == FirstIndex(s, i, Len(s), PyWhitespace, FALSE)

\* The greatest index <= j of a character of s that is not whitespace; 0 if none.
SkipSpaceBack(s, j) == LastIndex(s, 1, j, PyWhitespace, FALSE)

\* str.strip()
Strip(s) == Sub(s, SkipSpace(s, 1), SkipSpaceBack(s, Len(s)))

\* s.find(c) and s.rfind(c) for a character c, from 1; 0 when s holds no c.
Find(s, c) ==
    LET i == FirstIndex(s, 1, Len(s), {c}, TRUE) IN IF i > Len(s) THEN 0 ELSE i

RFind(s, c) == LastIndex(s, 1, Len(s), {c}, TRUE)

\* sub in s
Contains(s, sub) == \E i \in 1..(Len(s) - Len(sub) + 1) : Sub(s, i, i + Len(sub) - 1) = sub

\* str.lower() of one ASCII character
LowerChar(c) ==
    CASE c = "A" -> "a" [] c = "B" -> "b" [] c = "C" -> "c" [] c = "D" -> "d"
      [] c = "E" -> "e" [] c = "F" -> "f" [] c = "G" -> "g" [] c = "H" -> "h"
      [] c = "I" -> "i" [] c = "J" -> "j" [] c = "K" -> "k" [] c = "L" -> "l"
      [] c = "M" -> "m" [] c = "N" -> "n" [] c = "O" -> "o" [] c = "P" -> "p"
      [] c = "Q" -> "q" [] c = "R" -> "r" [] c = "S" -> "s" [] c = "T" -> "t"
      [] c = "U" -> "u" [] c = "V" -> "v" [] c = "W" -> "w" [] c = "X" -> "x"
      [] c = "Y" -> "y" [] c = "Z" -> "z"
      [] OTHER -> c

RECURSIVE Lower(_)
Lower(s) == IF s = "" THEN "" ELSE LowerChar(Ch(s, 1)) \o Lower(Sub(s, 2, Len(s)))

----------------------------------------------------------------------------
(* json.loads, as main.py line 334 calls it (the standard library's strict *)
(* decoder). A decoded value is a record: t is its JSON type, s its text   *)
(* (a string's decoded characters, a number's or literal's source text)    *)
(* and m an object's members in source order. The \b and \uXXXX escapes    *)
(* are not decoded: the texts of the model contain neither.                *)

JVal(t, s, m) == [t |-> t, s |-> s, m |-> m]

JStr(s) == JVal("str", s, <<>>)
JTrue == JVal("bool", "true", <<>>)
JFalse == JVal("bool", "false", <<>>)

ParseFail == [ok |-> FALSE, v |-> JVal("null", "", <<>>), e |-> 0]

ParseOk(v, e) == [ok |-> TRUE, v |-> v, e |-> e]

\* json.decoder.WHITESPACE
JsonWhitespace == {" ", "\t", "\n", "\r"}

JsonSkip(s, i) == FirstIndex(s, i, Len(s), JsonWhitespace, FALSE)

\* The index after the digits of s that start at i
SkipDigits(s, i) == FirstIndex(s, i, Len(s), Digits, FALSE)

\* json.scanner.NUMBER_RE matched at i: the index after the number, 0 if no match.
NumberEnd(s, i) ==
    LET j == IF Ch(s, i) = "-" THEN i + 1 ELSE i
        k == IF Ch(s, j) = "0" THEN j + 1 ELSE SkipDigits(s, j)
        f == IF Ch(s, k) = "." /\ Ch(s, k + 1) \in Digits
             THEN SkipDigits(s, k + 1) ELSE k
        p == IF Ch(s, f + 1) \in {"+", "-"} THEN f + 2 ELSE f + 1
        x == IF Ch(s, f) \in {"e", "E"} /\ Ch(s, p) \in Digits
             THEN SkipDigits(s, p) ELSE f
    IN  IF Ch(s, j) \in Digits THEN x ELSE 0

\* json.decoder.BACKSLASH
Unescape(d) ==
    CASE d = "n" -> "\n" [] d = "t" -> "\t" [] d = "r" -> "\r" [] d = "f" -> "\f"
      [] OTHER -> d

\* json.decoder.scanstring from index i, the character after the opening
\* quote: STRINGCHUNK takes the characters up to the next quote, backslash or
\* control character, which ends the string, starts an escape or is an error.
RECURSIVE ParseString(_, _, _)
ParseString(s, i, acc) ==
    LET j     == FirstIndex(s, i, Len(s), {"\"", "\\", "\n", "\t", "\r", "\f"}, TRUE)
        c     == Ch(s, j)
        d     == Ch(s, j + 1)
        chunk == acc \o Sub(s, i, j - 1)
    IN  IF j > Len(s) THEN ParseFail
        ELSE IF c = "\"" THEN ParseOk(JStr(chunk), j + 1)
        ELSE IF c = "\\"
             THEN IF d \in {"\"", "\\", "/", "n", "t", "r", "f"}
                  THEN ParseString(s, j + 2, chunk \o Unescape(d))
                  ELSE ParseFail
        ELSE ParseFail

RECURSIVE ParseValue(_, _)
RECURSIVE ParseMembers(_, _, _)
RECURSIVE ParseElements(_, _)

\* json.decoder.JSONObject from index i, where the next key's quote must be.
ParseMembers(s, i, acc) ==
    LET key == ParseString(s, i + 1, "")
        c   == JsonSkip(s, key.e)
        val == ParseValue(s, JsonSkip(s, c + 1))
        n   == JsonSkip(s, val.e)
        all == Append(acc, [k |-> key.v.s, v |-> val.v])
    IN  IF Ch(s, i) # "\"" THEN ParseFail
        ELSE IF ~key.ok THEN ParseFail
        ELSE IF Ch(s, c) # ":" THEN ParseFail
        ELSE IF ~val.ok THEN ParseFail
        ELSE IF Ch(s, n) = "}" THEN ParseOk(JVal("obj", "", all), n + 1)
        ELSE IF Ch(s, n) = "," THEN ParseMembers(s, JsonSkip(s, n + 1), all)
        ELSE ParseFail

\* json.decoder.JSONArray from index i, where the next element must start.
ParseElements(s, i) ==
    LET val == ParseValue(s, i)
        n   == JsonSkip(s, val.e)
    IN  IF ~val.ok THEN ParseFail
        ELSE IF Ch(s, n) = "]" THEN ParseOk(JVal("arr", "", <<>>), n + 1)
        ELSE IF Ch(s, n) = "," THEN ParseElements(s, JsonSkip(s, n + 1))
        ELSE ParseFail

\* json.scanner.py_make_scanner._scan_once
ParseValue(s, i) ==
    LET c == Ch(s, i)
        n == NumberEnd(s, i)
        o == JsonSkip(s, i + 1)
    IN  IF c = "\"" THEN ParseString(s, i + 1, "")
        ELSE IF c = "{"
             THEN IF Ch(s, o) = "}" THEN ParseOk(JVal("obj", "", <<>>), o + 1)
                  ELSE ParseMembers(s, o, <<>>)
        ELSE IF c = "["
             THEN IF Ch(s, o) = "]" THEN ParseOk(JVal("arr", "", <<>>), o + 1)
                  ELSE ParseElements(s, o)
        ELSE IF Sub(s, i, i + 3) = "null" THEN ParseOk(JVal("null", "null", <<>>), i + 4)
        ELSE IF Sub(s, i, i + 3) = "true" THEN ParseOk(JTrue, i + 4)
        ELSE IF Sub(s, i, i + 4) = "false" THEN ParseOk(JFalse, i + 5)
        ELSE IF n # 0 THEN ParseOk(JVal("num", Sub(s, i, n - 1), <<>>), n)
        ELSE IF Sub(s, i, i + 2) = "NaN" THEN ParseOk(JVal("num", "NaN", <<>>), i + 3)
        ELSE IF Sub(s, i, i + 7) = "Infinity"
             THEN ParseOk(JVal("num", "Infinity", <<>>), i + 8)
        ELSE IF Sub(s, i, i + 8) = "-Infinity"
             THEN ParseOk(JVal("num", "-Infinity", <<>>), i + 9)
        ELSE ParseFail

\* json.loads(s): the value, or ok = FALSE where it raises JSONDecodeError.
JsonLoads(s) ==
    LET r == ParseValue(s, JsonSkip(s, 1))
    IN  IF r.ok /\ JsonSkip(s, r.e) = Len(s) + 1 THEN r ELSE ParseFail

\* dict.get(key, default): the last member named key, since a repeated key
\* overwrites the earlier one.
RECURSIVE DictGetFrom(_, _, _, _)
DictGetFrom(m, key, default, i) ==
    IF i = 0 THEN default
    ELSE IF m[i].k = key THEN m[i].v
    ELSE DictGetFrom(m, key, default, i - 1)

DictGet(obj, key, default) == DictGetFrom(obj.m, key, default, Len(obj.m))

----------------------------------------------------------------------------
(* app/utils.py *)

\* An uploaded file: its name, its bytes, and what the PDF library makes of
\* those bytes (whether fitz.open accepts them, and each page's get_text()).
UploadFile(filename, bytes, valid, pages) ==
    [filename |-> filename, bytes |-> bytes, pdf |-> [valid |-> valid, pages |-> pages]]

\* One page of a document: get_text() returns text, or raises.
Page(raises, text) == [raises |-> raises, text |-> text]

\* file.filename.split('.')[-1]: the text after the last '.', the whole name
\* when it holds none.
LastDotPart(name) == Sub(name, RFind(name, ".") + 1, Len(name))

\* chr() of the ASCII bytes the model's files are written with.
AsciiChar(b) ==
    CASE b = 10 -> "\n" [] b = 32 -> " " [] b = 65 -> "A" [] b = 66 -> "B"
      [] b = 104 -> "h" [] b = 105 -> "i" [] OTHER -> "?"

\* bytes.decode("utf-8") on byte strings whose bytes are ASCII, 0x80 or 0xFF:
\* neither 0x80 (a continuation byte) nor 0xFF starts or continues a valid
\* sequence after an ASCII byte, so decoding fails on the first of them.
RECURSIVE Utf8Decode(_)
Utf8Decode(bytes) ==
    IF bytes = <<>> THEN [ok |-> TRUE, text |-> ""]
    ELSE IF Head(bytes) >= 128 THEN [ok |-> FALSE, text |-> ""]
    ELSE LET rest == Utf8Decode(Tail(bytes))
         IN  IF rest.ok THEN [ok |-> TRUE, text |-> AsciiChar(Head(bytes)) \o rest.text]
             ELSE rest

\* An outcome of extract_text_from_upload_file: kind is "return", "IOError" or
\* "ValueError"; text the returned text or the exception's message; read
\* whether file.file.read() was called; opened and closed count the document
\* handles fitz.open returned and those doc.close() was called on.
Extracted(kind, text, read, opened, closed) ==
    [kind |-> kind, text |-> text, read |-> read, opened |-> opened, closed |-> closed]

\* The loop of lines 87-90 from page i on with text accumulated: the
\* accumulator at the end, or the page that raised.
RECURSIVE PageLoop(_, _, _)
PageLoop(pages, i, text) ==
    IF i > Len(pages) THEN [raised |-> FALSE, text |-> text]
    ELSE IF pages[i].raises THEN [raised |-> TRUE, text |-> pages[i].text]
    ELSE PageLoop(pages, i + 1, text \o pages[i].text)

\* Lines 73-100: the pdf branch.
ExtractPdf(file) ==
    LET loop == PageLoop(file.pdf.pages, 1, "")
    IN  IF ~file.pdf.valid
        THEN Extracted("IOError", "Error processing PDF file: cannot open document",
                       TRUE, 0, 0)
        ELSE IF loop.raised
        THEN Extracted("IOError", "Error processing PDF file: " \o loop.text, TRUE, 1, 0)
        ELSE Extracted("return", loop.text, TRUE, 1, 1)

\* Lines 102-117: the txt branch.
ExtractTxt(file) ==
    LET d == Utf8Decode(file.bytes)
    IN  IF d.ok THEN Extracted("return", d.text, TRUE, 0, 0)
        ELSE Extracted("IOError", "Error reading TXT file: invalid start byte", TRUE, 0, 0)

\* Line 71
FileExtension(filename) == Lower(LastDotPart(filename))

extract_text_from_upload_file(file) ==
    LET file_extension == FileExtension(file.filename)
    IN  IF file_extension = "pdf" THEN ExtractPdf(file)
        ELSE IF file_extension = "txt" THEN ExtractTxt(file)
        ELSE Extracted("ValueError",
                       "Unsupported file format. Please upload a PDF or TXT file.",
                       FALSE, 0, 0)

----------------------------------------------------------------------------
(* app/llm.py *)

\* What model.generate_content(prompt) followed by response.text does: it
\* returns text, or raises an exception whose message is text.
LlmText(text) == [raises |-> FALSE, text |-> text]
LlmRaise(msg) == [raises |-> TRUE, text |-> msg]

\* str(n) for n >= 0
RECURSIVE IntToStr(_)
IntToStr(n) ==
    LET d == CASE n % 10 = 0 -> "0" [] n % 10 = 1 -> "1" [] n % 10 = 2 -> "2"
               [] n % 10 = 3 -> "3" [] n % 10 = 4 -> "4" [] n % 10 = 5 -> "5"
               [] n % 10 = 6 -> "6" [] n % 10 = 7 -> "7" [] n % 10 = 8 -> "8"
               [] OTHER -> "9"
    IN  IF n < 10 THEN d ELSE IntToStr(n \div 10) \o d

\* seq[:n]
Take(seq, n) ==
    LET e == IF n < 0 THEN Len(seq) + n ELSE IF n > Len(seq) THEN Len(seq) ELSE n
    IN  IF e <= 0 THEN <<>> ELSE SubSeq(seq, 1, e)

\* Lines 56-75
generate_summary(text, llm) ==
    IF USE_DUMMY_FUNCTIONS
    THEN "[DEMO MODE] This is a dummy summary of the uploaded document. The document contains "
         \o IntToStr(Len(text))
         \o " characters. In a real deployment, this would be an AI-generated summary of the content."
    ELSE IF ~llm.raises THEN Strip(llm.text)
    ELSE "An error occurred while generating the summary: " \o llm.text

\* Lines 102-113
dummy_questions == <<
    "What is the main topic of this document?",
    "What are the key points mentioned in the text?",
    "What conclusions can be drawn from the content?",
    "What evidence supports the main arguments?",
    "How does this relate to broader concepts?",
    "What are the implications of the findings?",
    "What methodology was used in this work?",
    "What are the limitations discussed?",
    "What future research is suggested?",
    "What are the practical applications mentioned?" >>

\* The index of the first "\n" of s at or after i; Len(s)+1 if none.
LineEnd(s, i) == IF i > Len(s) THEN i ELSE FirstIndex(s, i, Len(s), {"\n"}, TRUE)

\* With re.MULTILINE, ^ matches at the start of the text and after each "\n".
AtLineStart(s, pos) == pos = 1 \/ Ch(s, pos - 1) = "\n"

\* r'^\s*\d+\.\s*(.*)' tried at pos: \s and \d share no character and (.*)
\* may be empty, so the greedy match is the only one. e is the index after
\* the match.
MatchNumbered(s, pos) ==
    LET a == SkipSpace(s, pos)
        d == SkipDigits(s, a)
        b == SkipSpace(s, d + 1)
        e == LineEnd(s, b)
    IN  IF AtLineStart(s, pos) /\ d > a /\ Ch(s, d) = "."
        THEN [ok |-> TRUE, group |-> Sub(s, b, e - 1), e |-> e]
        ELSE [ok |-> FALSE, group |-> "", e |-> pos]

\* Line 134: re.findall scans from pos on; after a match it goes on from the
\* match's end, and where there is none from the next place ^ matches, the
\* index after the next "\n".
RECURSIVE FindAllNumbered(_, _, _)
FindAllNumbered(s, pos, acc) ==
    LET m == MatchNumbered(s, pos)
    IN  IF pos > Len(s) + 1 THEN acc
        ELSE IF m.ok THEN FindAllNumbered(s, m.e, Append(acc, m.group))
        ELSE FindAllNumbered(s, LineEnd(s, pos) + 1, acc)

\* s.split('\n') from index i on
RECURSIVE SplitLines(_, _)
SplitLines(s, i) ==
    LET e == LineEnd(s, i)
    IN  IF e > Len(s) THEN << Sub(s, i, Len(s)) >>
        ELSE << Sub(s, i, e - 1) >> \o SplitLines(s, e + 1)

\* [q.strip() for q in lines]: the filter of line 138 left out
RECURSIVE StripEach(_)
StripEach(lines) ==
    IF lines = <<>> THEN <<>> ELSE << Strip(Head(lines)) >> \o StripEach(Tail(lines))

\* Line 138: [q.strip() for q in lines if q.strip()]
RECURSIVE StripNonEmpty(_)
StripNonEmpty(lines) ==
    IF lines = <<>> THEN <<>>
    ELSE IF Strip(Head(lines)) = "" THEN StripNonEmpty(Tail(lines))
    ELSE << Strip(Head(lines)) >> \o StripNonEmpty(Tail(lines))

\* Line 137: `if not questions`, with questions what findall returned
UsesFallback(text) == FindAllNumbered(text, 1, <<>>) = <<>>

\* Lines 134-140: the list the response text is turned into.
ParseQuestions(text) ==
    IF UsesFallback(text) THEN StripNonEmpty(SplitLines(text, 1))
    ELSE FindAllNumbered(text, 1, <<>>)

\* Lines 101-144
generate_questions(text, num_questions, llm) ==
    IF USE_DUMMY_FUNCTIONS THEN Take(dummy_questions, num_questions)
    ELSE IF ~llm.raises THEN ParseQuestions(llm.text)
    ELSE <<>>

\* Lines 170-194
answer_question(context, question, llm) ==
    IF USE_DUMMY_FUNCTIONS
    THEN "[DEMO MODE] This is a dummy answer to your question: '" \o question
         \o "'. In a real deployment, this would be an AI-generated answer based on the document content."
    ELSE IF ~llm.raises THEN Strip(llm.text)
    ELSE "An error occurred while answering the question: " \o llm.text

\* Lines 222-265
evaluate_answer(context, question, user_answer, llm) ==
    IF USE_DUMMY_FUNCTIONS
    THEN "[DEMO MODE] Evaluation of your answer: '" \o user_answer
         \o "' to the question: '" \o question
         \o "'. In a real deployment, this would be an AI-generated evaluation based on the document content."
    ELSE IF ~llm.raises THEN Strip(llm.text)
    ELSE "{\"is_correct\": false, \"evaluation\": \"An error occurred while evaluating the answer: "
         \o llm.text \o "\"}"

----------------------------------------------------------------------------
(* app/main.py *)

\* Lines 21-26
EmptyStore == [filename |-> "", text |-> "", summary |-> "", questions |-> <<>>]

NoInput == [op |-> "none"]
NoResponse == [op |-> "none"]

\* A handler's response: its status and body, with the handler's local
\* values the properties speak of.
Response(op, status, body, locals) ==
    [op |-> op, status |-> status, body |-> body, locals |-> locals]

\* raise HTTPException(status_code, detail)
HTTPException(op, status, detail, locals) ==
    Response(op, status, [detail |-> detail], locals)

\* Line 131: str.endswith with a tuple of suffixes compares characters as they are.
HasSupportedSuffix(filename) == EndsWith(filename, ".pdf") \/ EndsWith(filename, ".txt")

\* A range test that lets 11 through
NumQuestionsInvalidAbove11(num_questions) == num_questions < 3 \/ num_questions > 11

\* Lines 138 and 249
NumQuestionsInvalid(num_questions) == num_questions < 3 \/ num_questions > 10

\* What the upload handler knows of the extraction it ran.
UploadLocals(extracted, branch, x) ==
    [extracted |-> extracted, branch |-> branch, kind |-> x.kind, text |-> x.text,
     opened |-> x.opened, closed |-> x.closed]

NotExtracted == UploadLocals(FALSE, "", Extracted("none", "", FALSE, 0, 0))

\* Lines 149-165, with the summary and the questions generated
UploadGenerated(req, x, summary, questions) ==
    Response("upload", 200,
        [filename |-> req.file.filename, summary |-> summary, questions |-> questions],
        UploadLocals(TRUE, FileExtension(req.file.filename), x))

\* Lines 144-171, with the extractor's outcome x
UploadExtracted(req, x) ==
    IF x.kind # "return"
    THEN HTTPException("upload", 500, "Failed to process file: " \o x.text,
             UploadLocals(TRUE, FileExtension(req.file.filename), x))
    ELSE UploadGenerated(req, x, generate_summary(x.text, req.llm_summary),
             generate_questions(x.text, req.num_questions, req.llm_questions))

\* Lines 130-171
UploadDocument(req) ==
    IF ~HasSupportedSuffix(req.file.filename)
    THEN HTTPException("upload", 400,
             "Unsupported file format. Please upload a PDF or TXT file.", NotExtracted)
    ELSE IF NumQuestionsInvalid(req.num_questions)
    THEN HTTPException("upload", 400,
             "Number of questions must be between 3 and 10.", NotExtracted)
    ELSE UploadExtracted(req, extract_text_from_upload_file(req.file))

\* An upload that keeps the summary of the document stored before it
UploadStoreKeepsSummary(store, resp) ==
    IF resp.status = 200
    THEN [filename |-> resp.body.filename, text |-> resp.locals.text,
          summary |-> IF store.summary = "" THEN resp.body.summary ELSE store.summary,
          questions |-> resp.body.questions]
    ELSE store

\* An upload that stores the text it extracted before anything can fail, and
\* forgets the stored document when the extraction fails
UploadStoreOnError(store, resp) ==
    IF resp.status = 200
    THEN [filename |-> resp.body.filename, text |-> resp.locals.text,
          summary |-> resp.body.summary, questions |-> resp.body.questions]
    ELSE IF resp.locals.extracted THEN [store EXCEPT !.text = "", !.filename = ""]
    ELSE store

\* Lines 149-150 and 157-158: what a successful upload leaves in document_store.
UploadStore(store, resp) ==
    IF resp.status = 200
    THEN [filename |-> resp.body.filename, text |-> resp.locals.text,
          summary |-> resp.body.summary, questions |-> resp.body.questions]
    ELSE store

\* Lines 198-214. answer_question catches what the LLM raises, so the except
\* clause of lines 209-214 is never entered.
AskQuestion(store, req) ==
    IF store.text = ""
    THEN HTTPException("ask", 400,
             "No document uploaded. Please upload a document first via the /api/upload endpoint.",
             [llm_raised |-> FALSE])
    ELSE Response("ask", 200,
             [answer |-> answer_question(store.text, req.question, req.llm)],
             [llm_raised |-> ~USE_DUMMY_FUNCTIONS /\ req.llm.raises])

\* Lines 241-268
RegenerateQuestions(store, req) ==
    IF store.text = ""
    THEN HTTPException("regenerate", 400,
             "No document uploaded. Please upload a document first.", <<>>)
    ELSE IF NumQuestionsInvalid(req.num_questions)
    THEN HTTPException("regenerate", 400,
             "Number of questions must be between 3 and 10.", <<>>)
    ELSE Response("regenerate", 200,
             [questions |-> generate_questions(store.text, req.num_questions, req.llm)],
             <<>>)

\* A regeneration that also clears the summary
RegenerateStoreAll(store, resp) ==
    IF resp.status = 200
    THEN [store EXCEPT !.questions = resp.body.questions, !.summary = ""]
    ELSE store

\* Line 260: what a successful regeneration leaves in document_store.
RegenerateStore(store, resp) ==
    IF resp.status = 200 THEN [store EXCEPT !.questions = resp.body.questions] ELSE store

\* The markdown fence marker, three backticks. A TLA+ string cannot hold a
\* backtick: in the model's texts "~" stands for it and for nothing else.
Fence == "~~~"

\* Lines 316-319
StripOpeningFence(s) ==
    IF StartsWith(s, Fence \o "json") THEN Sub(s, 8, Len(s))
    ELSE IF StartsWith(s, Fence) THEN Sub(s, 4, Len(s))
    ELSE s

\* Lines 321-322
StripClosingFence(s) == IF EndsWith(s, Fence) THEN Sub(s, 1, Len(s) - 3) ELSE s

\* The non-greedy r'\{.*?\}': from the first '{' to the first '}' after it.
ExtractBracesLazy(s) ==
    LET open  == Find(s, "{")
        close == FirstIndex(s, open + 1, Len(s), {"}"}, TRUE)
    IN  IF open # 0 /\ close <= Len(s) THEN Sub(s, open, close) ELSE s

\* Lines 328-330: re.search(r'\{.*\}', s, re.DOTALL) matches from the first
\* '{' that has a '}' after it, which is the first '{' of all, to the last '}'.
ExtractBraces(s) ==
    LET open  == Find(s, "{")
        close == RFind(s, "}")
    IN  IF open # 0 /\ open < close THEN Sub(s, open, close) ELSE s

\* Lines 313-330
CleanResponse(evaluation_response) ==
    ExtractBraces(Strip(StripClosingFence(StripOpeningFence(Strip(evaluation_response)))))

\* type(x).__name__ of a decoded JSON value
PyTypeName(v) ==
    CASE v.t = "str" -> "str" [] v.t = "arr" -> "list" [] v.t = "null" -> "NoneType"
      [] v.t = "bool" -> "bool" [] v.t = "obj" -> "dict"
      [] OTHER -> IF FirstIndex(v.s, 1, Len(v.s), {".", "e", "E", "N", "I"}, TRUE)
                     > Len(v.s)
                  THEN "int" ELSE "float"

ChallengeLocals(evaluation_response, cleaned_response, parsed) ==
    [evaluation_response |-> evaluation_response,
     cleaned_response |-> cleaned_response, parsed |-> parsed]

\* Lines 333-352, with evaluation_data what json.loads made of cleaned_response:
\* a value that is no dict has no get(), and the AttributeError is caught at
\* line 347.
EvaluationResult(evaluation_response, cleaned_response, evaluation_data) ==
    IF ~evaluation_data.ok
    THEN Response("challenge", 200,
             [evaluation |-> JStr("Error parsing evaluation response: "
                                  \o evaluation_response),
              is_correct |-> JFalse],
             ChallengeLocals(evaluation_response, cleaned_response, FALSE))
    ELSE IF evaluation_data.v.t # "obj"
    THEN HTTPException("challenge", 500,
             "An error occurred: '" \o PyTypeName(evaluation_data.v)
             \o "' object has no attribute 'get'",
             ChallengeLocals(evaluation_response, cleaned_response, TRUE))
    ELSE Response("challenge", 200,
             [evaluation |-> DictGet(evaluation_data.v, "evaluation",
                                     JStr("No evaluation provided")),
              is_correct |-> DictGet(evaluation_data.v, "is_correct", JFalse)],
             ChallengeLocals(evaluation_response, cleaned_response, TRUE))

\* Lines 333-334
ParseEvaluation(evaluation_response, cleaned_response) ==
    EvaluationResult(evaluation_response, cleaned_response, JsonLoads(cleaned_response))

\* Lines 313-346
NormalizeEvaluation(evaluation_response) ==
    ParseEvaluation(evaluation_response, CleanResponse(evaluation_response))

\* Lines 296-352
EvaluateChallenge(store, req) ==
    IF store.text = ""
    THEN HTTPException("challenge", 400,
             "No document uploaded. Please upload a document first.",
             ChallengeLocals("", "", FALSE))
    ELSE NormalizeEvaluation(
             evaluate_answer(store.text, req.question, req.answer, req.llm))

\* The handlers are coroutines without an await: the event loop runs each
\* from its first line to its response as one step.

http_upload_document ==
    /\ input.op = "upload"
    /\ response.op = "none"
    /\ response' = UploadDocument(input)
    /\ document_store' = UploadStore(document_store, response')
    /\ UNCHANGED <<USE_DUMMY_FUNCTIONS, input, call>>

http_ask_question ==
    /\ input.op = "ask"
    /\ response.op = "none"
    /\ response' = AskQuestion(document_store, input)
    /\ UNCHANGED <<USE_DUMMY_FUNCTIONS, document_store, input, call>>

http_regenerate_questions ==
    /\ input.op = "regenerate"
    /\ response.op = "none"
    /\ response' = RegenerateQuestions(document_store, input)
    /\ document_store' = RegenerateStore(document_store, response')
    /\ UNCHANGED <<USE_DUMMY_FUNCTIONS, input, call>>

http_evaluate_challenge ==
    /\ input.op = "challenge"
    /\ response.op = "none"
    /\ response' = EvaluateChallenge(document_store, input)
    /\ UNCHANGED <<USE_DUMMY_FUNCTIONS, document_store, input, call>>

----------------------------------------------------------------------------
(* The inputs: what clients send, what the PDF library makes of a file's   *)
(* bytes and what the LLM answers.                                         *)

\* The most pages a PDF of the model has, and the most bytes a file has.
MaxPages == 2
MaxBytes == 2

\* The sequences over S of length at most n
RECURSIVE SeqsUpTo(_, _)
SeqsUpTo(S, n) ==
    IF n = 0 THEN {<<>>}
    ELSE LET shorter == SeqsUpTo(S, n - 1)
         IN  shorter \cup {Append(q, x) : q \in {r \in shorter : Len(r) = n - 1}, x \in S}

\* A page renders as text, or its get_text() raises.
PageOutcomes == {Page(FALSE, "A"), Page(TRUE, "cannot render page")}

\* 'h' and the byte 0xFF, which no UTF-8 text contains.
FileBytes == {104, 255}

\* PDF documents (their bytes are not UTF-8 text) and files that are no PDF.
FileContents ==
    {[bytes |-> <<255>>, valid |-> TRUE, pages |-> ps] : ps \in SeqsUpTo(PageOutcomes, MaxPages)}
    \cup {[bytes |-> bs, valid |-> FALSE, pages |-> <<>>] : bs \in SeqsUpTo(FileBytes, MaxBytes)}

FilesNamed(names) ==
    {UploadFile(n, c.bytes, c.valid, c.pages) : n \in names, c \in FileContents}

\* The file names clients upload.
UploadNames == {"report.pdf", "Report.PDF", "notes.txt", "notes.TXT", "image.png"}

\* The num_questions values clients send: the ends of the accepted range and
\* their neighbours outside it.
NumQuestionsValues == {2, 3, 10, 11}

SummaryOutcomes == {LlmText(" A summary.\n"), LlmRaise("quota exceeded")}

QuestionOutcomes == {LlmText("1. What is X?\n2. Why Y?"), LlmRaise("quota exceeded")}

AnswerOutcomes == {LlmText(" It is X. "), LlmRaise("quota exceeded")}

EvaluationOutcomes ==
    {LlmText("{\"is_correct\": true, \"evaluation\": \"Correct.\"}"),
     LlmText("not valid json at all"),
     LlmRaise("quota exceeded")}

UploadRequests ==
    {[op |-> "upload", file |-> f, num_questions |-> n, llm_summary |-> s,
      llm_questions |-> q] :
        f \in FilesNamed(UploadNames), n \in NumQuestionsValues,
        s \in SummaryOutcomes, q \in QuestionOutcomes}

AskRequests ==
    {[op |-> "ask", question |-> "What is X?", llm |-> a] : a \in AnswerOutcomes}

RegenerateRequests ==
    {[op |-> "regenerate", num_questions |-> n, llm |-> q] :
        n \in NumQuestionsValues, q \in QuestionOutcomes}

ChallengeRequests ==
    {[op |-> "challenge", question |-> "What is X?", answer |-> "X is Y", llm |-> e] :
        e \in EvaluationOutcomes}

Requests == UploadRequests \cup AskRequests \cup RegenerateRequests \cup ChallengeRequests

----------------------------------------------------------------------------
(* The server: one request at a time is received, handled and answered.    *)

NoCall == [op |-> "none"]

Init ==
    /\ USE_DUMMY_FUNCTIONS \in BOOLEAN
    /\ document_store = EmptyStore
    /\ input = NoInput
    /\ response = NoResponse
    /\ call = NoCall

\* A client's request arrives.
Receive ==
    /\ input.op = "none"
    /\ input' \in Requests
    /\ UNCHANGED <<USE_DUMMY_FUNCTIONS, document_store, response, call>>

\* The response goes back to the client.
Respond ==
    /\ response.op # "none"
    /\ input' = NoInput
    /\ response' = NoResponse
    /\ UNCHANGED <<USE_DUMMY_FUNCTIONS, document_store, call>>

Next ==
    \/ Receive
    \/ http_upload_document
    \/ http_ask_question
    \/ http_regenerate_questions
    \/ http_evaluate_challenge
    \/ Respond

Spec == Init /\ [][Next]_vars

----------------------------------------------------------------------------
(* /api/challenge on the texts an LLM may answer with: a payload, with or  *)
(* without a markdown fence around it and prose before and after.          *)

\* A payload: its text and, when it is a JSON object that has both fields,
\* the values of the two.
Payload(text, fields, is_correct, evaluation) ==
    [text |-> text, fields |-> fields, is_correct |-> is_correct,
     evaluation |-> evaluation]

NoFields(text) == Payload(text, FALSE, JFalse, JStr(""))

EvalPayloads ==
    {Payload("{\"is_correct\": true, \"evaluation\": \"Correct.\"}",
             TRUE, JTrue, JStr("Correct.")),
     Payload("{\"is_correct\": false, \"evaluation\": \"Missing detail.\"}",
             TRUE, JFalse, JStr("Missing detail.")),
     Payload("{\"evaluation\": \"See {section 2}.\", \"is_correct\": true}",
             TRUE, JTrue, JStr("See {section 2}.")),
     Payload("{\n  \"is_correct\": true,\n  \"evaluation\": \"He said \\\"yes\\\".\"\n}",
             TRUE, JTrue, JStr("He said \"yes\".")),
     Payload("{\"is_correct\": \"true\", \"evaluation\": \"Correct.\"}",
             TRUE, JStr("true"), JStr("Correct.")),
     Payload("{\"is_correct\": 1, \"evaluation\": null}",
             TRUE, JVal("num", "1", <<>>), JVal("null", "null", <<>>)),
     Payload("{\"is_correct\": null, \"evaluation\": [\"a\"]}",
             TRUE, JVal("null", "null", <<>>), JVal("arr", "", <<>>)),
     NoFields("{}"),
     NoFields("{\"is_correct\": true}"),
     NoFields("{\"is_correct\": tru"),
     NoFields("{'is_correct': True}"),
     NoFields("not valid json at all"),
     NoFields(""),
     NoFields("42"),
     NoFields("null"),
     NoFields("true"),
     NoFields("\"Correct.\""),
     NoFields("[true]")}

EvalPrefixes == {"", "Here is my answer:\n", "Use {x}:\n"}
EvalOpenFences == {"", Fence \o "json\n", Fence \o "\n"}
EvalCloseFences == {"", "\n" \o Fence}
EvalSuffixes == {"", "\nThanks.", "\n{end}\n"}

\* The messages of the exceptions the LLM call raises.
ExceptionMessages ==
    {"quota exceeded", "invalid \"api_key\"", "no file C:\\keys", "timeout\nretry later"}

NoParts == [pre |-> "", open |-> "", payload |-> NoFields(""), close |-> "", post |-> ""]

ChallengeInputs ==
    {[op |-> "challenge", question |-> "What is X?", answer |-> "X is Y",
      llm |-> LlmText(pre \o open \o p.text \o close \o post),
      parts |-> [pre |-> pre, open |-> open, payload |-> p, close |-> close,
                 post |-> post]] :
        pre \in EvalPrefixes, open \in EvalOpenFences, p \in EvalPayloads,
        close \in EvalCloseFences, post \in EvalSuffixes}
    \cup
    {[op |-> "challenge", question |-> "What is X?", answer |-> "X is Y",
      llm |-> LlmRaise(msg), parts |-> NoParts] : msg \in ExceptionMessages}

\* The upload that loaded the document the challenge is about.
FirstUpload ==
    [op |-> "upload", file |-> UploadFile("notes.txt", <<104, 104>>, FALSE, <<>>),
     num_questions |-> 3, llm_summary |-> LlmText("A summary."),
     llm_questions |-> LlmText("1. What is X?")]

InitChallenge ==
    /\ USE_DUMMY_FUNCTIONS \in BOOLEAN
    /\ document_store \in {EmptyStore, UploadStore(EmptyStore, UploadDocument(FirstUpload))}
    /\ input \in ChallengeInputs
    /\ response = NoResponse
    /\ call = NoCall

NextChallenge == http_evaluate_challenge

SpecChallenge == InitChallenge /\ [][NextChallenge]_vars

\* The response to a challenge about a loaded document
ChallengeAnswered == response.op = "challenge" /\ document_store.text # ""

\* s can be read as a JSON object
IsJsonObject(s) == JsonLoads(s).ok /\ JsonLoads(s).v.t = "obj"

\* C1: with a document loaded, /api/challenge answers with a result and not
\* an error whatever the LLM text is; when the cleaned text is no JSON object
\* the result is is_correct = false with an evaluation that contains the raw
\* text.
C1_ChallengeNeverFails ==
    ChallengeAnswered =>
        /\ response.status = 200
        /\ ~IsJsonObject(response.locals.cleaned_response) =>
               /\ response.body.is_correct = JFalse
               /\ response.body.evaluation.t = "str"
               /\ Contains(response.body.evaluation.s,
                           response.locals.evaluation_response)

\* C2: every result of /api/challenge has a boolean is_correct and a string
\* evaluation.
C2_ResultShape ==
    (response.op = "challenge" /\ response.status = 200) =>
        /\ response.body.is_correct.t = "bool"
        /\ response.body.evaluation.t = "str"

\* The LLM answered the challenge with a JSON object that has both fields,
\* maybe fenced, maybe with prose around it.
ObjectAnswered ==
    /\ ChallengeAnswered
    /\ ~USE_DUMMY_FUNCTIONS
    /\ ~input.llm.raises
    /\ input.parts.payload.fields

\* The cleaned text is the span from the first '{' to the last '}' of the LLM
\* text, and the result holds the object's two values.
PayloadRecovered ==
    /\ response.locals.cleaned_response =
           Sub(input.llm.text, Find(input.llm.text, "{"), RFind(input.llm.text, "}"))
    /\ response.status = 200
    /\ response.body.is_correct = input.parts.payload.is_correct
    /\ response.body.evaluation = input.parts.payload.evaluation

IsEvaluationJson(s) ==
    /\ IsJsonObject(s)
    /\ DictGet(JsonLoads(s).v, "is_correct", JStr("")).t = "bool"
    /\ DictGet(JsonLoads(s).v, "evaluation", JFalse).t = "str"

----------------------------------------------------------------------------
(* generate_questions on the texts an LLM may answer with: up to MaxLines  *)
(* lines, numbered or not, blank or not.                                   *)

MaxLines == 3

QuestionLines ==
    {"", " \t", "1. What is X?", "2.", "  12.  How Z?  ", " Why Y? ", "In 3. we see"}

\* "\n".join(lines)
RECURSIVE JoinLines(_)
JoinLines(lines) ==
    IF Len(lines) = 0 THEN ""
    ELSE IF Len(lines) = 1 THEN lines[1]
    ELSE lines[1] \o "\n" \o JoinLines(Tail(lines))

QuestionInputs ==
    {[op |-> "generate_questions", text |-> "hh", num_questions |-> 3,
      llm |-> LlmText(JoinLines(ls)), lines |-> ls] :
        ls \in SeqsUpTo(QuestionLines, MaxLines) \ {<<>>}}
    \cup
    {[op |-> "generate_questions", text |-> "hh", num_questions |-> 3,
      llm |-> LlmRaise(msg), lines |-> <<>>] : msg \in ExceptionMessages}

InitQuestions ==
    /\ USE_DUMMY_FUNCTIONS \in BOOLEAN
    /\ document_store = EmptyStore
    /\ input \in QuestionInputs
    /\ response = NoResponse
    /\ call = NoCall

\* generate_questions is called and returns.
call_generate_questions ==
    /\ input.op = "generate_questions"
    /\ call.op = "none"
    /\ call' = [op |-> "generate_questions",
                questions |-> generate_questions(input.text, input.num_questions,
                                                 input.llm),
                fallback |-> UsesFallback(input.llm.text)]
    /\ UNCHANGED <<USE_DUMMY_FUNCTIONS, document_store, input, response>>

NextQuestions == call_generate_questions

SpecQuestions == InitQuestions /\ [][NextQuestions]_vars

\* generate_questions returned the list it made of an LLM text.
QuestionsParsed ==
    /\ call.op = "generate_questions"
    /\ ~USE_DUMMY_FUNCTIONS
    /\ ~input.llm.raises

\* The index of the period of a numbered line: optional whitespace, one or
\* more digits, a period. 0 when the line is not numbered.
PeriodOf(line) ==
    LET a == CHOOSE i \in 1..(Len(line) + 1) :
                 /\ \A j \in 1..(i - 1) : Ch(line, j) \in PyWhitespace
                 /\ Ch(line, i) \notin PyWhitespace
        d == CHOOSE i \in a..(Len(line) + 1) :
                 /\ \A j \in a..(i - 1) : Ch(line, j) \in Digits
                 /\ Ch(line, i) \notin Digits
    IN  IF d > a /\ Ch(line, d) = "." THEN d ELSE 0

IsNumbered(line) == PeriodOf(line) # 0

\* t is s without its leading whitespace.
IsLeftTrimOf(t, s) ==
    \E a \in 1..(Len(s) + 1) :
        /\ \A j \in 1..(a - 1) : Ch(s, j) \in PyWhitespace
        /\ Ch(s, a) \notin PyWhitespace
        /\ t = Sub(s, a, Len(s))

\* t is s without its leading and trailing whitespace.
IsTrimOf(t, s) ==
    \E a \in 1..(Len(s) + 1), b \in 0..Len(s) :
        /\ \A j \in 1..(a - 1) : Ch(s, j) \in PyWhitespace
        /\ \A j \in (b + 1)..Len(s) : Ch(s, j) \in PyWhitespace
        /\ Ch(s, a) \notin PyWhitespace
        /\ Ch(s, b) \notin PyWhitespace
        /\ t = Sub(s, a, b)

\* The number of the lines up to line i that are in the set of indices S
Rank(S, i) == Cardinality({j \in S : j <= i})

\* C7: when a line is numbered, the result has one item per numbered line, in
\* order, and each item is what follows the period (and whitespace) on that
\* same line.
C7_OneItemPerNumberedLine ==
    LET lines == input.lines
        numbered == {i \in 1..Len(lines) : IsNumbered(lines[i])}
    IN  (QuestionsParsed /\ numbered # {}) =>
            /\ Len(call.questions) = Cardinality(numbered)
            /\ \A i \in numbered :
                   IsLeftTrimOf(call.questions[Rank(numbered, i)],
                                Sub(lines[i], PeriodOf(lines[i]) + 1, Len(lines[i])))

\* C8: the fallback is used exactly when no line is numbered, and it returns
\* the lines that are not blank, trimmed, in their order: no item is empty or
\* starts or ends with whitespace.
C8_Fallback ==
    LET lines == input.lines
        numbered == {i \in 1..Len(lines) : IsNumbered(lines[i])}
        written == {i \in 1..Len(lines) : \E j \in 1..Len(lines[i]) :
                                              Ch(lines[i], j) \notin PyWhitespace}
    IN  QuestionsParsed =>
            /\ call.fallback <=> numbered = {}
            /\ call.fallback =>
                   /\ Len(call.questions) = Cardinality(written)
                   /\ \A i \in written :
                          IsTrimOf(call.questions[Rank(written, i)], lines[i])
                   /\ \A k \in 1..Len(call.questions) :
                          /\ call.questions[k] # ""
                          /\ Ch(call.questions[k], 1) \notin PyWhitespace
                          /\ Ch(call.questions[k], Len(call.questions[k]))
                                 \notin PyWhitespace

\* The fallback dropped a blank line and an empty one and trimmed the rest.
C8_Witness ==
    /\ QuestionsParsed
    /\ call.fallback
    /\ input.llm.text = " Why Y? \n \t\nIn 3. we see"
    /\ call.questions = <<"Why Y?", "In 3. we see">>

----------------------------------------------------------------------------
(* extract_text_from_upload_file on files of any name.                     *)

ExtractNames ==
    UploadNames \cup {"pdf", "txt", "PDF", "notes.txt.bak", "archive.", "a.b.TxT", ""}

ExtractInputs == {[op |-> "extract", file |-> f] : f \in FilesNamed(ExtractNames)}

InitExtract ==
    /\ USE_DUMMY_FUNCTIONS \in BOOLEAN
    /\ document_store = EmptyStore
    /\ input \in ExtractInputs
    /\ response = NoResponse
    /\ call = NoCall

\* extract_text_from_upload_file is called and returns or raises.
call_extract_text ==
    /\ input.op = "extract"
    /\ call.op = "none"
    /\ call' = [op |-> "extract", outcome |-> extract_text_from_upload_file(input.file)]
    /\ UNCHANGED <<USE_DUMMY_FUNCTIONS, document_store, input, response>>

NextExtract == call_extract_text

SpecExtract == InitExtract /\ [][NextExtract]_vars

\* The name ends in a '.' followed by pdf or txt, in any letter case.
HasRecognizedExtension(name) ==
    \E ext \in {".pdf", ".txt"} :
        /\ Len(name) >= 4
        /\ \A k \in 1..4 : LowerChar(Ch(name, Len(name) - 4 + k)) = Ch(ext, k)

\* C5: a file whose name has no recognized extension is refused with the
\* unsupported-format error, without its bytes being read.
C5_UnsupportedIsValueError ==
    (call.op = "extract" /\ ~HasRecognizedExtension(input.file.filename)) =>
        /\ call.outcome.kind = "ValueError"
        /\ ~call.outcome.read

\* C6: every document handle the extractor opened is closed when it returns
\* or raises.
C6_HandleClosed ==
    call.op = "extract" => call.outcome.closed = call.outcome.opened

----------------------------------------------------------------------------
(* The HTTP handlers *)

\* name with the text after its last '.' in lower case
LowerExtension(name) ==
    Sub(name, 1, RFind(name, ".")) \o Lower(Sub(name, RFind(name, ".") + 1, Len(name)))

\* C4: an upload has the same outcome as the upload of the same file under
\* the name with its extension in lower case: the same status and the same
\* extraction branch with the same result.
C4_ExtensionCaseInsensitive ==
    response.op = "upload" =>
        LET other == UploadDocument([input EXCEPT !.file.filename = LowerExtension(@)])
        IN  /\ response.status = other.status
            /\ response.locals.extracted = other.locals.extracted
            /\ response.locals.branch = other.locals.branch
            /\ response.locals.kind = other.locals.kind

\* C9: when the LLM call of answer_question raises for a loaded document,
\* /api/ask answers with HTTP 500 and no answer body.
C9_AskFailureIs500 ==
    (response.op = "ask" /\ response.locals.llm_raised) => response.status = 500

\* C10: what evaluate_answer returns is a JSON object with a boolean
\* is_correct and a string evaluation, in the two cases the claim names: the
\* LLM call raised (whatever the exception's message), and demo mode.
C10_EvaluateAnswerReturnsJson ==
    (ChallengeAnswered /\ (USE_DUMMY_FUNCTIONS \/ input.llm.raises)) =>
        IsEvaluationJson(response.locals.evaluation_response)

\* A handler takes its step: the request in input gets the response response'.
Handles(op) == response.op = "none" /\ response'.op = op

NumQuestionsDetail == "Number of questions must be between 3 and 10."

\* C11: an upload or a regeneration with num_questions outside 3..10 is
\* answered with HTTP 400 and an error detail, nothing is extracted or
\* generated and document_store is unchanged; no value of 3..10 is refused
\* for its num_questions.
C11_NumQuestionsValidated ==
    [][(Handles("upload") \/ Handles("regenerate")) =>
          /\ input.num_questions \notin 3..10 =>
                 /\ response'.status = 400
                 /\ DOMAIN response'.body = {"detail"}
                 /\ Handles("upload") => ~response'.locals.extracted
                 /\ document_store' = document_store
          /\ input.num_questions \in 3..10 =>
                 ~(response'.status = 400 /\ response'.body.detail = NumQuestionsDetail)
      ]_vars

\* A regeneration of 11 questions for a loaded document was refused.
C11_Witness ==
    /\ response.op = "regenerate"
    /\ input.num_questions = 11
    /\ document_store.text # ""
    /\ response.status = 400
    /\ response.body.detail = NumQuestionsDetail

\* The 400 response of a handler that found no document
NoDocumentRefusal ==
    /\ response.op \in {"ask", "challenge", "regenerate"}
    /\ response.status = 400
    /\ StartsWith(response.body.detail, "No document uploaded")

\* C12: once an upload has succeeded (document_store holds its file name),
\* no ask, challenge or regeneration is refused for want of a document, also
\* when the text extracted was the empty string.
C12_NoRefusalAfterUpload ==
    document_store.filename # "" => ~NoDocumentRefusal

\* C14: an upload answered with an error leaves the four fields of
\* document_store as they were.
C14_FailedUploadKeepsStore ==
    [][(Handles("upload") /\ response'.status # 200) =>
          document_store' = document_store]_vars

\* An extraction failed (HTTP 500) and the document uploaded before is still
\* the stored one.
C14_Witness ==
    /\ response.op = "upload"
    /\ response.status = 500
    /\ response.locals.extracted
    /\ document_store.text # ""
    /\ document_store.filename # input.file.filename

\* C15: a regeneration changes no field of document_store but questions;
\* ask and challenge change no field.
C15_FrameEffects ==
    [][/\ Handles("regenerate") =>
              /\ document_store'.filename = document_store.filename
              /\ document_store'.text = document_store.text
              /\ document_store'.summary = document_store.summary
       /\ (Handles("ask") \/ Handles("challenge")) =>
              document_store' = document_store
      ]_vars

\* A regeneration replaced the questions (by none: the LLM call raised) and
\* the summary of the upload is still stored.
C15_Witness ==
    /\ response.op = "regenerate"
    /\ response.status = 200
    /\ response.body.questions = <<>>
    /\ document_store.questions = <<>>
    /\ document_store.summary = "A summary."
    /\ document_store.text # ""

----------------------------------------------------------------------------
(* The server with several requests in flight. The handlers are coroutines *)
(* without an await, so the event loop runs one handler at a time from its *)
(* first line to its response; requests that have arrived wait, and are    *)
(* started in any order. The LLM answers about the text of its prompt.     *)

\* The most requests that arrive in a behaviour
MaxArrivals == 3

SessionFiles ==
    {UploadFile("report.pdf", <<255>>, TRUE, <<Page(FALSE, "A")>>),
     UploadFile("notes.txt", <<104, 104>>, FALSE, <<>>),
     UploadFile("image.png", <<255>>, FALSE, <<>>)}

\* llm_up: whether the LLM service answers while the request is handled.
SessionRequests ==
    {[op |-> "upload", file |-> f, num_questions |-> 3, llm_up |-> up] :
        f \in SessionFiles, up \in BOOLEAN}
    \cup {[op |-> "regenerate", num_questions |-> 3, llm_up |-> up] : up \in BOOLEAN}

\* What the LLM answers to the prompts of lines 59-66 and 117-126 of llm.py,
\* which hold the document's text
SummaryReply(text) == LlmText(" Summary of " \o text \o ".\n")
QuestionsReply(text) == LlmText("1. What is " \o text \o "?\n2. Why " \o text \o "?")

Reply(reply, llm_up) == IF llm_up THEN reply ELSE LlmRaise("quota exceeded")

\* The request r as its handler meets it: with the LLM's answers to the
\* prompts the handler will send, about the text of the file for an upload
\* and about the stored text for a regeneration.
Prompted(r, store) ==
    IF r.op = "upload"
    THEN [op |-> "upload", file |-> r.file, num_questions |-> r.num_questions,
          llm_summary |->
              Reply(SummaryReply(extract_text_from_upload_file(r.file).text), r.llm_up),
          llm_questions |->
              Reply(QuestionsReply(extract_text_from_upload_file(r.file).text), r.llm_up)]
    ELSE [op |-> "regenerate", num_questions |-> r.num_questions,
          llm |-> Reply(QuestionsReply(store.text), r.llm_up)]

\* seq without its i-th element
RemoveAt(seq, i) == SubSeq(seq, 1, i - 1) \o SubSeq(seq, i + 1, Len(seq))

InitInterleaved ==
    /\ USE_DUMMY_FUNCTIONS \in BOOLEAN
    /\ document_store = EmptyStore
    /\ input = NoInput
    /\ response = NoResponse
    /\ call = [op |-> "in_flight", pending |-> <<>>, arrived |-> 0, handling |-> 0]

\* A request arrives while others wait or one is handled.
Arrive ==
    /\ call.arrived < MaxArrivals
    /\ \E r \in SessionRequests :
           call' = [call EXCEPT !.arrived = @ + 1,
                                !.pending = Append(@, [seq |-> call.arrived + 1, req |-> r])]
    /\ UNCHANGED <<USE_DUMMY_FUNCTIONS, document_store, input, response>>

\* The event loop starts the handler of one of the waiting requests.
Start ==
    /\ input.op = "none"
    /\ \E i \in 1..Len(call.pending) :
           /\ input' = Prompted(call.pending[i].req, document_store)
           /\ call' = [call EXCEPT !.pending = RemoveAt(@, i),
                                   !.handling = call.pending[i].seq]
    /\ UNCHANGED <<USE_DUMMY_FUNCTIONS, document_store, response>>

NextInterleaved ==
    \/ Arrive
    \/ Start
    \/ http_upload_document
    \/ http_regenerate_questions
    \/ Respond

SpecInterleaved == InitInterleaved /\ [][NextInterleaved]_vars

\* text is what the extractor returns for the file.
ExtractsTo(x, text) == x.kind = "return" /\ x.text = text

\* The fields of store are those of one document: an upload of the stored
\* name stores the stored text, and the summary and the questions are what
\* generate_summary and generate_questions return for the stored text.
BelongTogether(store) ==
    /\ \E f \in SessionFiles :
           /\ f.filename = store.filename
           /\ ExtractsTo(extract_text_from_upload_file(f), store.text)
    /\ \E up \in BOOLEAN :
           store.summary = generate_summary(store.text, Reply(SummaryReply(store.text), up))
    /\ \E n \in 3..10, up \in BOOLEAN :
           store.questions =
               generate_questions(store.text, n, Reply(QuestionsReply(store.text), up))

\* C13: in every reachable state, whatever the order in which the requests in
\* flight are handled, document_store is empty or its filename, summary and
\* questions all belong to its text.
C13_SessionConsistent ==
    document_store = EmptyStore \/ BelongTogether(document_store)

\* A regeneration overtook an upload of another document that had arrived
\* before it and still waits; the questions stored are those of the stored
\* text.
C13_Witness ==
    /\ call.op = "in_flight"
    /\ response.op = "regenerate"
    /\ response.status = 200
    /\ Len(call.pending) > 0
    /\ call.pending[1].req.op = "upload"
    /\ call.pending[1].seq < call.handling
    /\ call.pending[1].req.file.filename # document_store.filename
    /\ document_store.text = "hh"
    /\ document_store.questions = <<"What is hh?", "Why hh?">>

====
